---- MODULE Spec2Model ----
(***************************************************************************)
(* Model of src/watcher.rs: the Watcher, its worker thread that drains the *)
(* raw-event channel of the notify Event Source, translates each           *)
(* DebouncedEvent into an optional WatcherChange and forwards it on an     *)
(* unbounded crossbeam channel, and the shutdown / drop life cycle guarded *)
(* by a DropBomb.                                                          *)
(***************************************************************************)
EXTENDS Integers, Sequences, FiniteSets, TLC

(* ------------------------------ bounds -------------------------------- *)

\* number of raw events the Event Source delivers in one run
MaxEvents == 2

(* ------------------------------ values -------------------------------- *)

Roots == {"/r1", "/r2"}
Names == {"a"}
\* a path is a root and a name below it
Paths == Roots \X Names
RootOf(p) == p[1]

NoPath == <<"NoPath">>
OptPaths == Paths \cup {NoPath}
Errs == {"io"}

NoiseTags == {"NoticeWrite", "NoticeRemove", "Chmod"}
OnePathTags == {"Create", "Write", "Remove"}

\* notify::DebouncedEvent
DebouncedEvent ==
    {<<t, p>> : t \in NoiseTags \cup OnePathTags, p \in Paths}
        \cup {<<"Rescan">>}
        \cup {<<"Rename", sd[1], sd[2]>> :
                  sd \in {x \in Paths \X Paths : x[1] # x[2]}}
        \cup {<<"Error", e, p>> : e \in Errs, p \in OptPaths}

\* enum WatcherChange
WatcherChange ==
    {<<t, p>> : t \in OnePathTags, p \in Paths}
        \cup {<<"Rename", s, d>> : s \in Paths, d \in Paths}

None == <<"None">>

\* variant: a Rename is built with its paths exchanged
from_debounced_event_swapped(ev) ==
    CASE ev[1] \in {"NoticeWrite", "NoticeRemove", "Chmod", "Rescan"} -> None
      [] ev[1] = "Create" -> <<"Create", ev[2]>>
      [] ev[1] = "Write"  -> <<"Write", ev[2]>>
      [] ev[1] = "Remove" -> <<"Remove", ev[2]>>
      [] ev[1] = "Rename" -> <<"Rename", ev[3], ev[2]>>
      [] ev[1] = "Error"  -> None

\* variant: Chmod is reported as a Write of the path
from_debounced_event_chmod(ev) ==
    CASE ev[1] \in {"NoticeWrite", "NoticeRemove", "Rescan"} -> None
      [] ev[1] = "Chmod"  -> <<"Write", ev[2]>>
      [] ev[1] = "Create" -> <<"Create", ev[2]>>
      [] ev[1] = "Write"  -> <<"Write", ev[2]>>
      [] ev[1] = "Remove" -> <<"Remove", ev[2]>>
      [] ev[1] = "Rename" -> <<"Rename", ev[2], ev[3]>>
      [] ev[1] = "Error"  -> None

\* WatcherChange::from_debounced_event; None stands for Option::None and a
\* WatcherChange c for Some(c)
from_debounced_event(ev) ==
    CASE ev[1] \in {"NoticeWrite", "NoticeRemove", "Chmod", "Rescan"} -> None
      [] ev[1] = "Create" -> <<"Create", ev[2]>>
      [] ev[1] = "Write"  -> <<"Write", ev[2]>>
      [] ev[1] = "Remove" -> <<"Remove", ev[2]>>
      [] ev[1] = "Rename" -> <<"Rename", ev[2], ev[3]>>
      [] ev[1] = "Error"  -> None

\* the paths an event or a change carries, in position order
PathsOf(x) ==
    CASE x[1] = "Rescan" -> <<>>
      [] x[1] = "None"   -> <<>>
      [] x[1] = "Error"  -> IF x[3] = NoPath THEN <<>> ELSE <<x[3]>>
      [] x[1] = "Rename" -> <<x[2], x[3]>>
      [] OTHER           -> <<x[2]>>

(* ------------------------------- state -------------------------------- *)

VARIABLES
    cpc,          \* position of the caller thread in the Watcher's life
    wpc,          \* position of the worker thread
    cur,          \* the change the worker is about to send, or None
    bomb,         \* Watcher.bomb: "none", "armed", "defused", "dropped", "exploded"
    watcher,      \* Watcher.watcher: the Event Source handle is alive
    thread,       \* Watcher.thread: "none", "held", "joined", "detached"
    receiver,     \* Watcher.receiver: the Watcher's receiving end is alive
    clone,        \* a clone of the receiving end taken through change_receiver
    output_sender,\* the worker's output_sender is alive
    input_closed, \* every input_sender of the Event Source has been dropped
    input,        \* raw-event channel content (mpsc)
    output,       \* forwarding channel content (crossbeam unbounded)
    roots,        \* roots registered with the Event Source
    res,          \* the caller's last fallible call and its result
    last_recv,    \* outcome of the consumer's last recv
    delivered,    \* history: raw events put on the raw-event channel
    taken,        \* history: raw events the worker has received
    pushed,       \* history: changes the worker has sent successfully
    received      \* history: changes the consumer has received

vars == <<cpc, wpc, cur, bomb, watcher, thread, receiver, clone,
          output_sender, input_closed, input, output, roots, res, last_recv,
          delivered, taken, pushed, received>>

callerVars == <<cpc, bomb, watcher, thread, receiver, res, roots>>
workerVars == <<wpc, cur, output_sender, taken, pushed>>
histVars   == <<delivered, taken, pushed, received>>

Init ==
    /\ cpc = "start"
    /\ wpc = "none"
    /\ cur = None
    /\ bomb = "none"
    /\ watcher = FALSE
    /\ thread = "none"
    /\ receiver = FALSE
    /\ clone = FALSE
    /\ output_sender = FALSE
    /\ input_closed = FALSE
    /\ input = <<>>
    /\ output = <<>>
    /\ roots = {}
    /\ res = <<"none", "none">>
    /\ last_recv = "none"
    /\ delivered = <<>>
    /\ taken = <<>>
    /\ pushed = <<>>
    /\ received = <<>>


(* --------------------------- Event Source ----------------------------- *)

\* the raw events the Event Source can report with the given roots watched
Emittable(rs) ==
    {ev \in DebouncedEvent :
        \A i \in 1..Len(PathsOf(ev)) : RootOf(PathsOf(ev)[i]) \in rs}

\* the Event Source sends one raw event of the set evs on input_sender
DeliverFrom(evs) ==
    /\ wpc \in {"recv", "send"}
    /\ ~input_closed
    /\ Len(delivered) < MaxEvents
    /\ \E ev \in evs :
          /\ input' = Append(input, ev)
          /\ delivered' = Append(delivered, ev)
    /\ UNCHANGED <<callerVars, wpc, cur, output_sender, taken, pushed,
                   clone, input_closed, output, last_recv, received>>

Deliver == DeliverFrom(Emittable(roots))

\* the raw events delivered in the runs checked for liveness: every class of
\* event (structural of each variant, noise, error) under both roots
Sample ==
    {<<"Create", <<"/r1", "a">>>>, <<"Write", <<"/r2", "a">>>>,
     <<"Remove", <<"/r1", "a">>>>, <<"Rename", <<"/r1", "a">>, <<"/r2", "a">>>>,
     <<"NoticeWrite", <<"/r1", "a">>>>, <<"Rescan">>, <<"Error", "io", NoPath>>}

DeliverSample == DeliverFrom(Emittable(roots) \cap Sample)

\* once its handle is dropped the Event Source drops input_sender
SourceClose ==
    /\ cpc \notin {"start", "new_failed"}
    /\ ~watcher
    /\ ~input_closed
    /\ input_closed' = TRUE
    /\ UNCHANGED <<callerVars, workerVars, clone, input, output, last_recv,
                   delivered, received>>

(* ------------------------------ worker -------------------------------- *)

\* variant: the worker takes the newest pending raw event first
WorkerRecvNewest ==
    /\ wpc = "recv"
    /\ input # <<>>
    /\ LET ev == input[Len(input)]
           change == from_debounced_event(ev)
       IN  /\ input' = SubSeq(input, 1, Len(input) - 1)
           /\ taken' = Append(taken, ev)
           /\ cur' = change
           /\ wpc' = IF change = None THEN "recv" ELSE "send"
    /\ UNCHANGED <<callerVars, output_sender, pushed, clone, input_closed,
                   output, last_recv, delivered, received>>

\* variant: an Error event ends the loop
WorkerRecvBreakOnError ==
    /\ wpc = "recv"
    /\ input # <<>>
    /\ LET ev == Head(input)
           change == from_debounced_event(ev)
       IN  /\ input' = Tail(input)
           /\ taken' = Append(taken, ev)
           /\ cur' = change
           /\ wpc' = IF ev[1] = "Error" THEN "exited"
                      ELSE IF change = None THEN "recv" ELSE "send"
           /\ output_sender' = (ev[1] # "Error")
    /\ UNCHANGED <<callerVars, pushed, clone, input_closed,
                   output, last_recv, delivered, received>>

\* input_receiver.recv() returns Ok(ev); the event is translated
WorkerRecv ==
    /\ wpc = "recv"
    /\ input # <<>>
    /\ LET ev == Head(input)
           change == from_debounced_event(ev)
       IN  /\ input' = Tail(input)
           /\ taken' = Append(taken, ev)
           /\ cur' = change
           /\ wpc' = IF change = None THEN "recv" ELSE "send"
    /\ UNCHANGED <<callerVars, output_sender, pushed, clone, input_closed,
                   output, last_recv, delivered, received>>

\* variant: the worker leaves the loop as soon as the raw channel is closed,
\* whatever is still pending in it
WorkerStopEarly ==
    /\ wpc = "recv"
    /\ input_closed
    /\ wpc' = "exited"
    /\ output_sender' = FALSE
    /\ UNCHANGED <<callerVars, cur, taken, pushed, clone, input_closed, input,
                   output, last_recv, delivered, received>>

\* variant: the worker polls and leaves the loop when nothing is pending
WorkerStopOnEmpty ==
    /\ wpc = "recv"
    /\ input = <<>>
    /\ wpc' = "exited"
    /\ output_sender' = FALSE
    /\ UNCHANGED <<callerVars, cur, taken, pushed, clone, input_closed, input,
                   output, last_recv, delivered, received>>

\* input_receiver.recv() returns Err: the channel is empty and disconnected
WorkerStop ==
    /\ wpc = "recv"
    /\ input = <<>>
    /\ input_closed
    /\ wpc' = "exited"
    /\ output_sender' = FALSE
    /\ UNCHANGED <<callerVars, cur, taken, pushed, clone, input_closed, input,
                   output, last_recv, delivered, received>>

\* variant: the forwarding channel holds one change and a send blocks while
\* it is full
WorkerSendBounded ==
    /\ wpc = "send"
    /\ (receiver \/ clone) => Len(output) < 1
    /\ IF receiver \/ clone
         THEN /\ output' = Append(output, cur)
              /\ pushed' = Append(pushed, cur)
              /\ wpc' = "recv"
              /\ UNCHANGED output_sender
         ELSE /\ wpc' = "panicked"
              /\ output_sender' = FALSE
              /\ UNCHANGED <<output, pushed>>
    /\ cur' = None
    /\ UNCHANGED <<callerVars, taken, clone, input_closed, input, last_recv,
                   delivered, received>>

\* variant: the forwarding channel holds one change and a send into a full
\* channel discards the change
WorkerSendLossy ==
    /\ wpc = "send"
    /\ IF receiver \/ clone
         THEN /\ output' = IF Len(output) < 1 THEN Append(output, cur)
                                              ELSE output
              /\ pushed' = Append(pushed, cur)
              /\ wpc' = "recv"
              /\ UNCHANGED output_sender
         ELSE /\ wpc' = "panicked"
              /\ output_sender' = FALSE
              /\ UNCHANGED <<output, pushed>>
    /\ cur' = None
    /\ UNCHANGED <<callerVars, taken, clone, input_closed, input, last_recv,
                   delivered, received>>

\* variant: the forwarding channel holds one change and a send into a full
\* channel fails, so unwrap panics
WorkerSendFullPanics ==
    /\ wpc = "send"
    /\ IF (receiver \/ clone) /\ Len(output) < 1
         THEN /\ output' = Append(output, cur)
              /\ pushed' = Append(pushed, cur)
              /\ wpc' = "recv"
              /\ UNCHANGED output_sender
         ELSE /\ wpc' = "panicked"
              /\ output_sender' = FALSE
              /\ UNCHANGED <<output, pushed>>
    /\ cur' = None
    /\ UNCHANGED <<callerVars, taken, clone, input_closed, input, last_recv,
                   delivered, received>>

\* output_sender.send(change).unwrap(): an unbounded send fails only when
\* every receiving end is gone, and then unwrap panics
WorkerSend ==
    /\ wpc = "send"
    /\ IF receiver \/ clone
         THEN /\ output' = Append(output, cur)
              /\ pushed' = Append(pushed, cur)
              /\ wpc' = "recv"
              /\ UNCHANGED output_sender
         ELSE /\ wpc' = "panicked"
              /\ output_sender' = FALSE
              /\ UNCHANGED <<output, pushed>>
    /\ cur' = None
    /\ UNCHANGED <<callerVars, taken, clone, input_closed, input, last_recv,
                   delivered, received>>

(* ------------------------- caller: new, watch -------------------------- *)

\* Watcher::new succeeds
NewOk ==
    /\ cpc = "start"
    /\ cpc' = "ready"
    /\ watcher' = TRUE
    /\ output_sender' = TRUE
    /\ wpc' = "recv"
    /\ thread' = "held"
    /\ receiver' = TRUE
    /\ bomb' = "armed"
    /\ res' = <<"new", "Ok">>
    /\ UNCHANGED <<cur, clone, input_closed, input, output, roots,
                   last_recv, histVars>>

\* variant: the worker thread is spawned before the Event Source is created
NewErrSpawned ==
    /\ cpc = "start"
    /\ cpc' = "new_failed"
    /\ input_closed' = TRUE
    /\ res' = <<"new", "Err">>
    /\ wpc' = "recv"
    /\ output_sender' = TRUE
    /\ UNCHANGED <<cur, taken, pushed, bomb, watcher, thread, receiver, clone,
                   input, output, roots, last_recv, delivered, received>>

\* notify::watcher fails and `?` returns before the thread is spawned
NewErr ==
    /\ cpc = "start"
    /\ cpc' = "new_failed"
    /\ input_closed' = TRUE
    /\ res' = <<"new", "Err">>
    /\ UNCHANGED <<workerVars, bomb, watcher, thread, receiver, clone, input,
                   output, roots, last_recv, delivered, received>>

\* Watcher::watch returns Ok(())
WatchOk ==
    /\ cpc = "ready"
    /\ \E r \in Roots : roots' = roots \cup {r}
    /\ res' = <<"watch", "Ok">>
    /\ UNCHANGED <<cpc, bomb, watcher, thread, receiver, workerVars,
                   clone, input_closed, input, output, last_recv, delivered,
                   received>>

\* variant: a watch that fails forgets the roots registered before
WatchErrForgets ==
    /\ cpc = "ready"
    /\ res' = <<"watch", "Err">>
    /\ roots' = {}
    /\ UNCHANGED <<cpc, bomb, watcher, thread, receiver, workerVars,
                   clone, input_closed, input, output, last_recv, delivered,
                   received>>

\* Watcher::watch returns Err
WatchErr ==
    /\ cpc = "ready"
    /\ res' = <<"watch", "Err">>
    /\ UNCHANGED <<cpc, bomb, watcher, thread, receiver, roots, workerVars,
                   clone, input_closed, input, output, last_recv, delivered,
                   received>>

(* ------------------------ caller: consumption ------------------------- *)

\* the caller clones the handle change_receiver returns
CloneReceiver ==
    /\ cpc = "ready"
    /\ receiver
    /\ ~clone
    /\ clone' = TRUE
    /\ UNCHANGED <<callerVars, workerVars, input_closed, input, output,
                   last_recv, delivered, received>>

DropClone ==
    /\ clone
    /\ clone' = FALSE
    /\ UNCHANGED <<callerVars, workerVars, input_closed, input, output,
                   last_recv, delivered, received>>

\* one recv() on change_receiver() or on the clone: it yields the oldest
\* pending change, blocks while the channel is empty and output_sender is
\* alive, and yields Err(RecvError) once it is empty and disconnected
ConsumerRecv ==
    /\ (cpc = "ready" /\ receiver) \/ clone
    /\ IF output # <<>>
         THEN /\ output' = Tail(output)
              /\ received' = Append(received, Head(output))
              /\ last_recv' = "Change"
         ELSE /\ ~output_sender /\ wpc # "none"
              /\ last_recv' = "Disconnected"
              /\ UNCHANGED <<output, received>>
    /\ UNCHANGED <<callerVars, workerVars, clone, input_closed, input,
                   delivered>>

(* -------------------------- caller: shutdown -------------------------- *)

\* DropBomb's destructor
BombDrop(b) == IF b = "armed" THEN "exploded" ELSE "dropped"

\* variant: shutdown leaves the bomb armed
ShutdownNoDefuse ==
    /\ cpc = "ready"
    /\ cpc' = "sd_drop"
    /\ UNCHANGED <<bomb, watcher, thread, receiver, res, roots, workerVars,
                   clone, input_closed, input, output, last_recv, delivered,
                   received>>

\* self.bomb.defuse()
ShutdownDefuse ==
    /\ cpc = "ready"
    /\ bomb' = "defused"
    /\ cpc' = "sd_drop"
    /\ UNCHANGED <<watcher, thread, receiver, res, roots, workerVars, clone,
                   input_closed, input, output, last_recv, delivered, received>>

\* variant: the Event Source handle is kept until shutdown returns
ShutdownKeepWatcher ==
    /\ cpc = "sd_drop"
    /\ cpc' = "sd_join"
    /\ UNCHANGED <<bomb, watcher, thread, receiver, res, roots, workerVars,
                   clone, input_closed, input, output, last_recv, delivered,
                   received>>

\* variant: shutdown drops the receiving end together with the Event Source
\* handle, before the join
ShutdownDropAll ==
    /\ cpc = "sd_drop"
    /\ watcher' = FALSE
    /\ receiver' = FALSE
    /\ cpc' = "sd_join"
    /\ UNCHANGED <<bomb, thread, res, roots, workerVars, clone,
                   input_closed, input, output, last_recv, delivered, received>>

\* drop(self.watcher)
ShutdownDropWatcher ==
    /\ cpc = "sd_drop"
    /\ watcher' = FALSE
    /\ cpc' = "sd_join"
    /\ UNCHANGED <<bomb, thread, receiver, res, roots, workerVars, clone,
                   input_closed, input, output, last_recv, delivered, received>>

\* variant: the thread handle is released without waiting for the worker
ShutdownJoinNoWait ==
    /\ cpc = "sd_join"
    /\ thread' = "joined"
    /\ res' = <<"shutdown", "Ok">>
    /\ cpc' = "sd_ret"
    /\ UNCHANGED <<bomb, watcher, receiver, roots, workerVars, clone,
                   input_closed, input, output, last_recv, delivered, received>>

\* self.thread.join() returns once the worker thread has terminated
ShutdownJoin ==
    /\ cpc = "sd_join"
    /\ wpc \in {"exited", "panicked"}
    /\ thread' = "joined"
    /\ res' = <<"shutdown", IF wpc = "exited" THEN "Ok" ELSE "Err">>
    /\ cpc' = "sd_ret"
    /\ UNCHANGED <<bomb, watcher, receiver, roots, workerVars, clone,
                   input_closed, input, output, last_recv, delivered, received>>

\* shutdown logs and returns res; the rest of self (receiver, bomb) is dropped
ShutdownReturn ==
    /\ cpc = "sd_ret"
    /\ receiver' = FALSE
    /\ bomb' = BombDrop(bomb)
    /\ cpc' = IF BombDrop(bomb) = "exploded" THEN "panicked" ELSE "done"
    /\ UNCHANGED <<watcher, thread, res, roots, workerVars, clone,
                   input_closed, input, output, last_recv, delivered, received>>

(* --------------- caller: Watcher dropped without shutdown -------------- *)

\* the fields are dropped in declaration order: receiver, watcher, thread, bomb
DropReceiver ==
    /\ cpc = "ready"
    /\ receiver' = FALSE
    /\ cpc' = "drop_watcher"
    /\ UNCHANGED <<bomb, watcher, thread, res, roots, workerVars, clone,
                   input_closed, input, output, last_recv, delivered, received>>

DropWatcher ==
    /\ cpc = "drop_watcher"
    /\ watcher' = FALSE
    /\ cpc' = "drop_thread"
    /\ UNCHANGED <<bomb, thread, receiver, res, roots, workerVars, clone,
                   input_closed, input, output, last_recv, delivered, received>>

\* dropping a JoinHandle detaches the thread
DropThread ==
    /\ cpc = "drop_thread"
    /\ thread' = "detached"
    /\ cpc' = "drop_bomb"
    /\ UNCHANGED <<bomb, watcher, receiver, res, roots, workerVars, clone,
                   input_closed, input, output, last_recv, delivered, received>>

DropBomb ==
    /\ cpc = "drop_bomb"
    /\ bomb' = BombDrop(bomb)
    /\ cpc' = IF BombDrop(bomb) = "exploded" THEN "panicked" ELSE "dropped"
    /\ UNCHANGED <<watcher, thread, receiver, res, roots, workerVars, clone,
                   input_closed, input, output, last_recv, delivered, received>>

(* --------------------------- specification ---------------------------- *)

\* the steps of the caller, of the consumer and of the worker
Program ==
    \/ NewOk \/ NewErr \/ WatchOk \/ WatchErr
    \/ CloneReceiver \/ DropClone \/ ConsumerRecv
    \/ ShutdownDefuse \/ ShutdownDropWatcher \/ ShutdownJoin \/ ShutdownReturn
    \/ DropReceiver \/ DropWatcher \/ DropThread \/ DropBomb
    \/ SourceClose
    \/ WorkerRecv \/ WorkerStop \/ WorkerSend

Next == Program \/ Deliver

Spec == Init /\ [][Next]_vars

NextLive == Program \/ DeliverSample

\* the worker thread is scheduled fairly, the Event Source closes the raw
\* channel once its handle is gone, and a caller inside shutdown goes on
LiveSpec ==
    /\ Init /\ [][NextLive]_vars
    /\ WF_vars(WorkerRecv) /\ WF_vars(WorkerStop) /\ WF_vars(WorkerSend)
    /\ WF_vars(SourceClose)
    /\ WF_vars(ShutdownDropWatcher) /\ WF_vars(ShutdownJoin)
    /\ WF_vars(ShutdownReturn)

TypeOK ==
    /\ cpc \in {"start", "new_failed", "ready", "sd_drop", "sd_join", "sd_ret",
                "done", "drop_watcher", "drop_thread", "drop_bomb", "panicked",
                "dropped"}
    /\ wpc \in {"none", "recv", "send", "exited", "panicked"}
    /\ cur \in WatcherChange \cup {None}
    /\ bomb \in {"none", "armed", "defused", "dropped", "exploded"}
    /\ thread \in {"none", "held", "joined", "detached"}
    /\ roots \subseteq Roots
    /\ res \in {"none", "new", "watch", "shutdown"} \X {"none", "Ok", "Err"}
    /\ last_recv \in {"none", "Change", "Disconnected"}
    /\ Len(delivered) <= MaxEvents


(* ------------------------------ helpers ------------------------------- *)

IsStructural(ev) == ev[1] \in {"Create", "Write", "Remove", "Rename"}
IsNoise(ev) == ev[1] \in {"NoticeWrite", "NoticeRemove", "Chmod", "Rescan"}
IsError(ev) == ev[1] = "Error"

IsPrefix(s, t) == Len(s) <= Len(t) /\ s = SubSeq(t, 1, Len(s))

\* the changes a raw sequence translates to, in order
RECURSIVE Translate(_)
Translate(evs) ==
    IF evs = <<>> THEN <<>>
    ELSE LET c == from_debounced_event(Head(evs))
         IN  (IF c = None THEN <<>> ELSE <<c>>) \o Translate(Tail(evs))

\* the change the worker holds between its receive and its send
Pending == IF wpc = "send" THEN <<cur>> ELSE <<>>

(* ------------------------------ claims -------------------------------- *)

\* C1: the changes pushed onto the forwarding channel, and the changes the
\* consumer has received, are the raw events delivered so far with noise and
\* error events removed and every structural event translated, in the same
\* order: the worker takes the raw events in delivery order, and whenever it
\* is back at its receive (or has left the loop) the pushed sequence is
\* exactly the translation of the events it has taken.
C1_ForwardedInOrder ==
    /\ taken \o input = delivered
    /\ wpc \in {"recv", "send", "exited"} => pushed \o Pending = Translate(taken)
    /\ wpc = "exited" => pushed = Translate(delivered)
    /\ IsPrefix(pushed, Translate(delivered))
    /\ IsPrefix(received, Translate(delivered))

C1_Witness ==
    /\ Len(delivered) = 2
    /\ IsStructural(delivered[1]) /\ IsStructural(delivered[2])
    /\ delivered[1] # delivered[2]
    /\ Len(received) = 2

\* C2: the i-th change pushed has the variant and the paths, in the same
\* positions, of the i-th structural raw event the worker took; so its paths
\* lie under the roots of the raw event's paths.
C2_PathPreserving ==
    LET structural == SelectSeq(taken, IsStructural)
        out == pushed \o Pending
    IN  /\ Len(out) <= Len(structural)
        /\ \A i \in 1..Len(out) :
              /\ out[i][1] = structural[i][1]
              /\ PathsOf(out[i]) = PathsOf(structural[i])
              /\ \A k \in 1..Len(PathsOf(out[i])) :
                    RootOf(PathsOf(out[i])[k]) = RootOf(PathsOf(structural[i])[k])

C2_Witness ==
    /\ Len(pushed) = 2
    /\ pushed[1][1] = "Rename"
    /\ RootOf(pushed[1][2]) = "/r2" /\ RootOf(pushed[1][3]) = "/r1"
    /\ pushed[2] = <<"Create", <<"/r2", "a">>>>

\* C3: when the worker receives a noise event it goes straight back to its
\* receive with nothing to send: the forwarding channel and the sequence of
\* pushed changes are unchanged.
C3_NoiseDropped ==
    [][(wpc = "recv" /\ input # <<>> /\ IsNoise(Head(input)) /\ taken' # taken)
        => /\ wpc' = "recv"
           /\ cur' = None
           /\ output' = output
           /\ pushed' = pushed]_vars

C3_Witness ==
    /\ Len(taken) = 2
    /\ taken[1][1] = "Chmod" /\ taken[2][1] = "Rescan"
    /\ wpc = "recv"
    /\ pushed = <<>>

\* C4: receiving an Error event leaves the worker in its receive loop with
\* nothing to send and the forwarding channel unchanged, and a structural
\* event the worker takes after an Error event is translated and pushed like
\* any other.
C4_ErrorKeepsLoop ==
    /\ [][(wpc = "recv" /\ input # <<>> /\ IsError(Head(input)) /\ taken' # taken)
            => /\ wpc' = "recv"
               /\ cur' = None
               /\ output_sender' = output_sender
               /\ output' = output
               /\ pushed' = pushed]_vars
    /\ [](\A i \in 1..Len(taken) : \A j \in 1..Len(taken) :
            (i < j /\ IsError(taken[i]) /\ IsStructural(taken[j])
                   /\ wpc # "panicked")
              => LET k == Len(SelectSeq(SubSeq(taken, 1, j), IsStructural))
                 IN  /\ Len(pushed \o Pending) >= k
                     /\ (pushed \o Pending)[k][1] = taken[j][1]
                     /\ PathsOf((pushed \o Pending)[k]) = PathsOf(taken[j]))

C4_Witness ==
    /\ Len(taken) = 2
    /\ IsError(taken[1]) /\ taken[1][3] # NoPath
    /\ IsStructural(taken[2])
    /\ Len(pushed) = 1
    /\ wpc = "recv"


\* the i-th delivered raw event is structural and its change has been pushed
\* at the position its rank among the structural events gives it
PushedFor(i) ==
    LET k == Len(SelectSeq(SubSeq(delivered, 1, i), IsStructural))
    IN  /\ Len(delivered) >= i
        /\ IsStructural(delivered[i])
        /\ Len(pushed) >= k
        /\ pushed[k][1] = delivered[i][1]
        /\ PathsOf(pushed[k]) = PathsOf(delivered[i])

C6_ShutdownTerminates == (cpc = "sd_drop") ~> (cpc = "done")

C6_Witness ==
    /\ cpc = "done"
    /\ Len(output) = 2
    /\ received = <<>>
    /\ ~clone

\* C7: inside shutdown the bomb is defused before the Event Source handle is
\* dropped, the handle is dropped before the caller waits for the worker, and
\* shutdown gets past the join (and returns) only when the worker thread has
\* terminated.
C7_ShutdownOrder ==
    /\ cpc = "sd_drop" => bomb = "defused" /\ watcher /\ thread = "held"
    /\ cpc = "sd_join" => bomb = "defused" /\ ~watcher /\ thread = "held"
    /\ cpc \in {"sd_ret", "done"} =>
          /\ ~watcher
          /\ thread = "joined"
          /\ wpc \in {"exited", "panicked"}
          /\ bomb # "armed"

C7_Witness ==
    /\ cpc = "done"
    /\ wpc = "exited"
    /\ Len(taken) = 2
    /\ res = <<"shutdown", "Ok">>

\* C8 as stated: once shutdown has returned successfully no further change is
\* delivered to the consumer.
C8_Original ==
    [][(cpc = "done" /\ res = <<"shutdown", "Ok">>) => received' = received]_vars

\* C8 amended: once shutdown has returned successfully the producer side of
\* the forwarding channel is gone and no further change is pushed; a consumer
\* that still holds a receiving end is delivered only the changes already
\* pending in the channel, oldest first, and gets the disconnected outcome
\* only when none is left.
C8_ClosedAfterShutdown ==
    /\ []((cpc = "done" /\ res = <<"shutdown", "Ok">>) =>
            /\ ~output_sender
            /\ wpc = "exited"
            /\ ~receiver
            /\ (last_recv = "Disconnected" => output = <<>>))
    /\ [][(cpc = "done" /\ res = <<"shutdown", "Ok">>) =>
            /\ pushed' = pushed
            /\ (output' # output => received' # received)
            /\ (received' # received =>
                    /\ output # <<>>
                    /\ received' = Append(received, Head(output))
                    /\ output' = Tail(output))
            /\ (last_recv' = "Disconnected" /\ last_recv # "Disconnected"
                    => output = <<>>)]_vars

C8_Witness ==
    /\ cpc = "done"
    /\ res = <<"shutdown", "Ok">>
    /\ clone
    /\ last_recv = "Disconnected"
    /\ Len(received) = 2

\* C9: every change pushed is either still in the forwarding channel or has
\* been received, in push order, and a send made while a receiving end is
\* alive appends the change whatever the number of changes already pending.
C9_NoLoss ==
    /\ [](pushed = received \o output)
    /\ [][(wpc = "send" /\ wpc' # wpc /\ (receiver \/ clone)) =>
            /\ output' = Append(output, cur)
            /\ wpc' = "recv"]_vars

C9_Witness ==
    /\ Len(output) = 2
    /\ received = <<>>
    /\ wpc = "recv"
    /\ cpc = "ready"

\* C10: the bomb is armed from construction until shutdown is invoked, only
\* shutdown defuses it, and a Watcher dropped while the bomb is armed ends in
\* a panic of the dropping thread, never in a silent drop.
C10_BombArmed ==
    /\ [](/\ cpc \in {"ready", "drop_watcher", "drop_thread", "drop_bomb"}
              => bomb = "armed"
          /\ cpc \in {"sd_drop", "sd_join", "sd_ret"} => bomb = "defused"
          /\ cpc = "done" => bomb = "dropped"
          /\ cpc # "dropped"
          /\ cpc = "panicked" <=> bomb = "exploded")
    /\ [][(bomb = "armed" /\ bomb' # "armed") =>
            \/ cpc = "ready" /\ cpc' = "sd_drop" /\ bomb' = "defused"
            \/ cpc = "drop_bomb" /\ cpc' = "panicked" /\ bomb' = "exploded"]_vars

C10_Witness ==
    /\ cpc = "panicked"
    /\ bomb = "exploded"
    /\ thread = "detached"
    /\ res = <<"watch", "Ok">>

\* C11: after a new() that failed there is no Watcher, no worker thread and
\* no forwarding channel: nothing was spawned or created, the call returned
\* an error, and nothing happens afterwards.
C11_FailedNewLeavesNothing ==
    cpc = "new_failed" =>
        /\ res = <<"new", "Err">>
        /\ wpc = "none"
        /\ thread = "none"
        /\ ~watcher
        /\ ~receiver /\ ~clone /\ ~output_sender
        /\ bomb = "none"
        /\ output = <<>> /\ pushed = <<>> /\ taken = <<>>
        /\ ~ENABLED (WorkerRecv \/ WorkerStop \/ WorkerSend)

C11_Witness ==
    /\ cpc = "new_failed"
    /\ res = <<"new", "Err">>
    /\ input_closed

\* C12: a watch that fails returns an error and changes nothing else: the
\* registered roots, the worker, both channels and the bomb are as before;
\* afterwards the worker is still in its loop and a further watch can succeed.
C12_FailedWatchChangesNothing ==
    /\ [][(res' # res /\ res' = <<"watch", "Err">>) =>
            /\ cpc = "ready"
            /\ UNCHANGED <<cpc, wpc, cur, bomb, watcher, thread, receiver,
                           clone, output_sender, input_closed, input, output,
                           roots, last_recv, delivered, taken, pushed,
                           received>>]_vars
    /\ []((cpc = "ready" /\ res = <<"watch", "Err">>) =>
            /\ wpc \in {"recv", "send"}
            /\ bomb = "armed"
            /\ ENABLED WatchOk)

C12_Witness ==
    /\ cpc = "ready"
    /\ res = <<"watch", "Err">>
    /\ roots = {"/r1"}
    /\ Len(delivered) = 2
    /\ IsStructural(delivered[2])
    /\ input = <<>>
    /\ Len(pushed) = 1

\* C13: from a successful new() until shutdown is called the Watcher holds
\* the handle of its worker thread and that thread is live, in its loop,
\* whatever watch calls, reads of the forwarding channel and raw events
\* (noise and errors included) happen; the worker ends only after the caller
\* has left that phase.
C13_WorkerLive ==
    /\ [](cpc = "ready" =>
            /\ thread = "held"
            /\ wpc \in {"recv", "send"}
            /\ output_sender
            /\ watcher /\ ~input_closed)
    /\ [][(wpc \in {"recv", "send"} /\ wpc' \notin {"recv", "send"})
            => cpc \notin {"start", "new_failed", "ready"}]_vars

C13_Witness ==
    /\ cpc = "ready"
    /\ res = <<"watch", "Err">>
    /\ Len(taken) = 2
    /\ IsError(taken[1]) /\ IsNoise(taken[2])
    /\ last_recv = "none"
    /\ clone
    /\ wpc = "recv"

C15_ResultReflectsWorker ==
    /\ cpc \in {"sd_ret", "done"} =>
          /\ res[1] = "shutdown"
          /\ res[2] = "Ok" <=> wpc = "exited"
          /\ res[2] = "Err" <=> wpc = "panicked"
    /\ res[1] = "shutdown" => cpc \in {"sd_ret", "done"}
    /\ wpc = "panicked" =>
          res \in {<<"new", "Ok">>, <<"watch", "Ok">>, <<"watch", "Err">>}

C15_Witness ==
    /\ cpc = "sd_ret"
    /\ res = <<"shutdown", "Ok">>
    /\ wpc = "exited"
    /\ Len(pushed) = 1
    /\ Len(taken) = 2

\* C16: the worker waits only in its receive on the raw-event channel: a
\* send is enabled in every state in which the worker holds a change,
\* whatever is unread in the forwarding channel, and at its receive the
\* worker can step whenever a raw event is pending or the channel is closed.
C16_WorkerBlocksOnlyOnRecv ==
    /\ wpc = "send" => ENABLED WorkerSend
    /\ (wpc = "recv" /\ input # <<>>) => ENABLED WorkerRecv
    /\ (wpc = "recv" /\ input = <<>> /\ input_closed) => ENABLED WorkerStop
    /\ (wpc = "recv" /\ input = <<>> /\ ~input_closed) =>
          ~ENABLED (WorkerRecv \/ WorkerStop \/ WorkerSend)

C16_Witness ==
    /\ wpc = "send"
    /\ Len(output) = 1
    /\ received = <<>>
    /\ ~clone
    /\ input_closed
    /\ cpc = "sd_join"

\* C17: the worker leaves its loop normally only with the raw-event channel
\* closed and empty, having taken every raw event delivered; so when the
\* join in shutdown has completed, every structural raw event delivered,
\* those pending when the Event Source was dropped included, has been
\* translated and pushed.
C17_DrainedBeforeExit ==
    /\ wpc = "exited" => input_closed /\ input = <<>> /\ taken = delivered
    /\ cpc \in {"sd_ret", "done"} =>
          /\ input = <<>>
          /\ Len(pushed) = Len(SelectSeq(delivered, IsStructural))
          /\ \A i \in 1..Len(delivered) :
                IsStructural(delivered[i]) => PushedFor(i)

C17_Witness ==
    /\ cpc = "sd_join"
    /\ input_closed
    /\ Len(input) = 2
    /\ IsStructural(input[1]) /\ IsStructural(input[2])
    /\ wpc = "recv"

\* C18: when the Watcher's life is ended by shutdown the worker never
\* panics: the receiving end is alive until the join has completed, so every
\* push made during shutdown succeeds, the worker leaves through the closed
\* channel and shutdown returns Ok.
C18_ShutdownNeverPanics ==
    /\ cpc \in {"sd_drop", "sd_join", "sd_ret", "done"} => wpc # "panicked"
    /\ cpc \in {"sd_drop", "sd_join"} => receiver
    /\ (cpc \in {"sd_drop", "sd_join"} /\ wpc = "send") =>
          ENABLED (WorkerSend /\ wpc' = "recv")
    /\ cpc \in {"sd_ret", "done"} => res = <<"shutdown", "Ok">> /\ wpc = "exited"

C18_Witness ==
    /\ cpc = "done"
    /\ res = <<"shutdown", "Ok">>
    /\ Len(taken) = 2
    /\ Len(output) = 1
    /\ Len(received) = 1
    /\ ~clone

====
